---------------------------- MODULE Spec2Model ----------------------------
(***************************************************************************)
(* A model of Draft/PythonLibraries/transforms.py: quaternion algebra,     *)
(* quaternion <-> axis-angle conversions and 4x4 pose algebra.             *)
(*                                                                         *)
(* Numbers.  A real array is a record [n |-> integers, d |-> Nat]: the     *)
(* array n/d with one common denominator, kept in lowest terms (Canon).    *)
(* +, -, * and / are exact (real-number semantics, no rounding).  d = 0    *)
(* marks the non-finite array numpy returns after a division by zero.      *)
(* The math library (sqrt, sin, cos, acos, norm, pi) is irrational-valued; *)
(* its results, and quotients/products formed with them, are rounded to a  *)
(* grid of 1/Scale.                                                        *)
(*                                                                         *)
(* State.  The functions are called by a caller that owns the argument     *)
(* arrays; the state is those arrays, the name of the last function        *)
(* called, how the call ended and what it returned.                        *)
(***************************************************************************)
EXTENDS Integers, Sequences, FiniteSets

VARIABLES
    q1, q2,      \* caller-owned quaternion arrays (x, y, z, w)
    r1, r2,      \* caller-owned axis-angle arrays
    P1, P2,      \* caller-owned 4x4 matrices
    R, t,        \* caller-owned 3x3 matrix and 3x1 vector
    points, K,   \* caller-owned point list and 3x3 intrinsics matrix
    fn,          \* the function called last ("none" before the first call)
    status,      \* "ok", or the exception the call raised
    ret,         \* the value the call returned
    depth        \* how many results have been fed back as arguments

vars == <<q1, q2, r1, r2, P1, P2, R, t, points, K, fn, status, ret, depth>>

(***************************************************************************)
(* Bounds of the model.                                                    *)
(***************************************************************************)
MaxQ == 2        \* components of the quaternion q1 lie in -MaxQ..MaxQ
MaxQ2 == 1       \* components of the quaternion q2 lie in 0..MaxQ2
MaxR == 6        \* components of the axis-angle vector r1 lie in -MaxR..MaxR
MaxR2 == 1       \* components of the axis-angle vector r2 lie in 0..MaxR2
MaxM == 2        \* the diagonal entries of R lie in -1..MaxM
MaxT == 1        \* the first two components of the translation t lie in 0..MaxT
MaxChain == 2    \* results fed back as arguments, at most
MaxZ == 2        \* the z coordinate of a point lies in -MaxZ..MaxZ
MaxPts == 2      \* points in a list, at most

(***************************************************************************)
(* Exact arithmetic on arrays with a common denominator.                   *)
(***************************************************************************)
Abs(x) == IF x < 0 THEN -x ELSE x

Sgn(x) == IF x > 0 THEN 1 ELSE IF x < 0 THEN -1 ELSE 0

RECURSIVE Gcd(_, _)
Gcd(a, b) == IF b = 0 THEN a ELSE Gcd(b, a % b)

RECURSIVE GcdSeq(_)
GcdSeq(s) == IF s = <<>> THEN 0 ELSE Gcd(Abs(Head(s)), GcdSeq(Tail(s)))

\* A vector n/d in lowest terms with d > 0; d = 0 is the non-finite vector.
Canon(n, d) ==
    IF d = 0 THEN [n |-> [i \in DOMAIN n |-> 0], d |-> 0]
    ELSE LET g == Gcd(GcdSeq(n), Abs(d))
             s == Sgn(d)
         IN  [n |-> [i \in DOMAIN n |-> (s * n[i]) \div g], d |-> Abs(d) \div g]

IsFinite(v) == v.d # 0

Vec(n) == [n |-> n, d |-> 1]

None == Vec(<<>>)

(***************************************************************************)
(* Quaternion transformations.                                             *)
(***************************************************************************)
\* A wrong sign in the w component.
mult_quat_badsign(qb, qa) ==
    LET a == qa.n
        b == qb.n
    IN  Canon(<< a[1]*b[4] + a[4]*b[1] + a[2]*b[3] - a[3]*b[2],
                 a[4]*b[2] - a[1]*b[3] + a[2]*b[4] + a[3]*b[1],
                 a[4]*b[3] + a[1]*b[2] - a[2]*b[1] + a[3]*b[4],
                 a[4]*b[4] + a[1]*b[1] - a[2]*b[2] - a[3]*b[3] >>,
              qa.d * qb.d)

\* mult_quat(q2, q1): qa is the source's q1, qb its q2.
mult_quat(qb, qa) ==
    LET a == qa.n
        b == qb.n
    IN  Canon(<< a[1]*b[4] + a[4]*b[1] + a[2]*b[3] - a[3]*b[2],
                 a[4]*b[2] - a[1]*b[3] + a[2]*b[4] + a[3]*b[1],
                 a[4]*b[3] + a[1]*b[2] - a[2]*b[1] + a[3]*b[4],
                 a[4]*b[4] - a[1]*b[1] - a[2]*b[2] - a[3]*b[3] >>,
              qa.d * qb.d)

SumSq(n) == n[1]*n[1] + n[2]*n[2] + n[3]*n[3] + n[4]*n[4]

\* The conjugate alone: right for unit quaternions only.
inv_quat_conj(qwt) == Canon(<< -qwt.n[1], -qwt.n[2], -qwt.n[3], qwt.n[4] >>, qwt.d)

\* (conj(n)/d) / (SumSq(n)/d^2) = conj(n)*d / SumSq(n); 0/0 is not finite.
inv_quat(qwt) ==
    LET n == qwt.n
    IN  Canon(<< -n[1] * qwt.d, -n[2] * qwt.d, -n[3] * qwt.d, n[4] * qwt.d >>,
              IF IsFinite(qwt) THEN SumSq(n) ELSE 0)

delta_quat(qb, qa) == mult_quat(qb, inv_quat(qa))

(***************************************************************************)
(* The math library on a grid of 1/Scale: a grid value g stands for the    *)
(* real g/Scale.  Angles are grid values in radians.                       *)
(***************************************************************************)
Scale == 100

PiG == 314       \* pi, to the grid

\* a/b for b > 0, to the nearest integer (halves upwards).
Round(a, b) == (2 * a + b) \div (2 * b)

\* a/b for b > 0, to the next integer upwards.
Ceil(a, b) == -((-a) \div b)

\* The largest s in lo..hi with s*s <= x, where lo*lo <= x.
RECURSIVE ISqrtIn(_, _, _)
ISqrtIn(x, lo, hi) ==
    IF lo >= hi THEN lo
    ELSE LET mid == (lo + hi + 1) \div 2
         IN  IF mid * mid <= x THEN ISqrtIn(x, mid, hi) ELSE ISqrtIn(x, lo, mid - 1)

ISqrt(x) == ISqrtIn(x, 0, 46340)

ISqrtUp(x) == LET s == ISqrt(x) IN IF s * s = x THEN s ELSE s + 1

\* The components of a finite array, each to the nearest grid value.
Grid(v) == [i \in DOMAIN v.n |-> Round(v.n[i] * Scale, v.d)]

\* numpy.linalg.norm of a finite array, as a grid value.  Rounded upwards, so
\* that, as with a correctly rounded sqrt, no component exceeds the norm.
Norm(v) ==
    LET g == [i \in DOMAIN v.n |-> Ceil(Abs(v.n[i]) * Scale, v.d)]
        RECURSIVE Sq(_)
        Sq(i) == IF i = 0 THEN 0 ELSE g[i] * g[i] + Sq(i - 1)
    IN  ISqrtUp(Sq(Len(g)))

\* round(Scale * sin(x / Scale)) for x = 0 .. PiG/2
SinTab ==
    << 0,   1,   2,   3,   4,   5,   6,   7,   8,   9,  10,  11,  12,  13,  14,  15,
        16,  17,  18,  19,  20,  21,  22,  23,  24,  25,  26,  27,  28,  29,  30,  31,
        31,  32,  33,  34,  35,  36,  37,  38,  39,  40,  41,  42,  43,  43,  44,  45,
        46,  47,  48,  49,  50,  51,  51,  52,  53,  54,  55,  56,  56,  57,  58,  59,
        60,  61,  61,  62,  63,  64,  64,  65,  66,  67,  67,  68,  69,  70,  70,  71,
        72,  72,  73,  74,  74,  75,  76,  76,  77,  78,  78,  79,  80,  80,  81,  81,
        82,  82,  83,  84,  84,  85,  85,  86,  86,  87,  87,  88,  88,  89,  89,  90,
        90,  90,  91,  91,  92,  92,  92,  93,  93,  94,  94,  94,  95,  95,  95,  96,
        96,  96,  96,  97,  97,  97,  97,  98,  98,  98,  98,  98,  99,  99,  99,  99,
        99,  99,  99,  99, 100, 100, 100, 100, 100, 100, 100, 100, 100, 100 >>

AcosTab ==
    << 314, 300, 294, 290, 286, 282, 279, 277, 274, 271, 269, 267, 265, 263, 261, 259,
       257, 255, 253, 251, 250, 248, 247, 245, 243, 242, 240, 239, 237, 236, 235, 233,
       232, 231, 229, 228, 227, 225, 224, 223, 221, 220, 219, 218, 217, 215, 214, 213,
       212, 211, 209, 208, 207, 206, 205, 204, 203, 202, 200, 199, 198, 197, 196, 195,
       194, 193, 192, 191, 190, 189, 188, 187, 185, 184, 183, 182, 181, 180, 179, 178,
       177, 176, 175, 174, 173, 172, 171, 170, 169, 168, 167, 166, 165, 164, 163, 162,
       161, 160, 159, 158, 157, 156, 155, 154, 153, 152, 151, 150, 149, 148, 147, 146,
       145, 144, 143, 142, 141, 140, 139, 138, 137, 136, 135, 134, 133, 132, 131, 130,
       129, 128, 127, 126, 125, 123, 122, 121, 120, 119, 118, 117, 116, 115, 114, 113,
       112, 110, 109, 108, 107, 106, 105, 104, 102, 101, 100,  99,  98,  96,  95,  94,
        93,  91,  90,  89,  88,  86,  85,  84,  82,  81,  80,  78,  77,  75,  74,  72,
        71,  69,  68,  66,  64,  63,  61,  59,  57,  55,  54,  52,  49,  47,  45,  43,
        40,  38,  35,  32,  28,  25,  20,  14,   0 >>

\* math.sin of the grid angle x, by the symmetries of the sine.
Sin(x) ==
    LET y == x % (2 * PiG)
        z == IF y > PiG THEN y - PiG ELSE y
        u == IF 2 * z > PiG THEN PiG - z ELSE z
    IN  (IF y > PiG THEN -1 ELSE 1) * SinTab[u + 1]

\* math.cos of the grid angle x (x >= 0).
Cos(x) == Sin(x + PiG \div 2)

\* math.acos of the grid value w, -Scale <= w <= Scale.
Acos(w) == AcosTab[w + Scale + 1]

(***************************************************************************)
(* Conversions between quaternions and other representations.              *)
(***************************************************************************)
\* The 'else' branch lost: the zero vector is divided by its zero norm.
quat_from_rvec_nozero(rvec) ==
    LET angle == Norm(rvec)
        half  == Round(angle, 2)
    IN  IF angle > 0
        THEN Canon(<< Round(rvec.n[1] * Sin(half) * Scale, rvec.d * angle),
                      Round(rvec.n[2] * Sin(half) * Scale, rvec.d * angle),
                      Round(rvec.n[3] * Sin(half) * Scale, rvec.d * angle),
                      Cos(half) >>,
                   Scale)
        ELSE Canon(<< 0, 0, 0, 0 >>, 0)

\* rvec * sin(angle/2) / angle and cos(angle/2), or the identity quaternion.
quat_from_rvec(rvec) ==
    LET angle == Norm(rvec)
        half  == Round(angle, 2)
    IN  IF angle > 0
        THEN Canon(<< Round(rvec.n[1] * Sin(half) * Scale, rvec.d * angle),
                      Round(rvec.n[2] * Sin(half) * Scale, rvec.d * angle),
                      Round(rvec.n[3] * Sin(half) * Scale, rvec.d * angle),
                      Cos(half) >>,
                   Scale)
        ELSE Vec(<< 0, 0, 0, 1 >>)

\* The guard of rvec_from_quat: qwt[3] > 1.
WGreaterOne(qwt) == IsFinite(qwt) /\ qwt.n[4] > qwt.d

\* The caller's array qwt after rvec_from_quat(qwt): 'qwt /= LA.norm(qwt)'
\* divides in place.
rvec_from_quat_qwt(qwt) ==
    IF WGreaterOne(qwt)
    THEN LET g == Grid(qwt)
             nrm == Norm(qwt)
         IN  Canon([i \in 1..4 |-> Round(g[i] * Scale, nrm)], Scale)
    ELSE qwt

\* acos(qwt[3]) raises ValueError (math domain error) outside [-1, 1].
rvec_from_quat_raises(qwt) ==
    LET q == rvec_from_quat_qwt(qwt)
    IN  IsFinite(q) /\ (q.n[4] > q.d \/ q.n[4] < -q.d)

SMinDen == 1000  \* the threshold on s is 1/SMinDen

\* The s < 0.001 branch left out: the axis is always qwt[0:3] / s.
rvec_from_quat_nobranch(qwt) ==
    LET q     == rvec_from_quat_qwt(qwt)
        g     == Grid(q)
        angle == 2 * Acos(g[4])
        s     == ISqrt(Scale * Scale - g[4] * g[4])
    IN  IF ~IsFinite(q) \/ s = 0 THEN Canon(<< 0, 0, 0 >>, 0)
        ELSE Canon([i \in 1..3 |-> Round(Round(g[i] * Scale, s) * angle, Scale)],
                   Scale)

\* The value rvec_from_quat(qwt) returns when it raises nothing.
rvec_from_quat(qwt) ==
    LET q     == rvec_from_quat_qwt(qwt)
        g     == Grid(q)
        angle == 2 * Acos(g[4])
        s     == ISqrt(Scale * Scale - g[4] * g[4])
        rvec  == IF s * SMinDen < Scale
                 THEN << Scale, 0, 0 >>
                 ELSE [i \in 1..3 |-> Round(g[i] * Scale, s)]
    IN  IF ~IsFinite(q) THEN Canon(<< 0, 0, 0 >>, 0)
        ELSE Canon([i \in 1..3 |-> Round(rvec[i] * angle, Scale)], Scale)

\* The index of the first component largest in absolute value (argmax).
ArgMaxAbs(n) ==
    CHOOSE i \in 1..3 :
        /\ \A j \in 1..3 : Abs(n[j]) <= Abs(n[i])
        /\ \A j \in 1..(i - 1) : Abs(n[j]) < Abs(n[i])

\* The axis (an array) and the angle (a grid value) of rvec.
axis_and_angle_from_rvec(rvec) ==
    LET nrm   == Norm(rvec)
        sign  == Sgn(rvec.n[ArgMaxAbs(rvec.n)])
        axis  == Canon([i \in 1..3 |->
                           IF nrm = 0 THEN 0
                           ELSE Round(sign * rvec.n[i] * Scale * Scale, rvec.d * nrm)],
                       IF nrm = 0 THEN 0 ELSE Scale)
        angle == nrm * sign
    IN  [axis  |-> axis,
         angle |-> IF Abs(angle) > PiG THEN angle - Sgn(angle) * 2 * PiG ELSE angle]

(***************************************************************************)
(* Axis-angle transformations.                                             *)
(***************************************************************************)
\* The quaternion handed to rvec_from_quat by delta_rvec(rb, ra).
delta_rvec_quat(rb, ra) == delta_quat(quat_from_rvec(rb), quat_from_rvec(ra))

delta_rvec_raises(rb, ra) == rvec_from_quat_raises(delta_rvec_quat(rb, ra))

delta_rvec(rb, ra) == rvec_from_quat(delta_rvec_quat(rb, ra))

(***************************************************************************)
(* Matrices: [n |-> rows of integers, d |-> Nat], the matrix n/d in lowest *)
(* terms.                                                                  *)
(***************************************************************************)
RECURSIVE GcdRows(_)
GcdRows(rows) == IF rows = <<>> THEN 0 ELSE Gcd(GcdSeq(Head(rows)), GcdRows(Tail(rows)))

MCanon(rows, d) ==
    LET g == Gcd(GcdRows(rows), Abs(d))
        s == Sgn(d)
    IN  [n |-> [i \in DOMAIN rows |-> [j \in DOMAIN rows[i] |-> (s * rows[i][j]) \div g]],
         d |-> Abs(d) \div g]

Mat(rows) == [n |-> rows, d |-> 1]

Eye(k) == Mat([i \in 1..k |-> [j \in 1..k |-> IF i = j THEN 1 ELSE 0]])

Transpose(rows) == [j \in DOMAIN rows[1] |-> [i \in DOMAIN rows |-> rows[i][j]]]

RECURSIVE DotTo(_, _, _)
DotTo(a, b, k) == IF k = 0 THEN 0 ELSE a[k] * b[k] + DotTo(a, b, k - 1)

Dot(a, b) == DotTo(a, b, Len(a))

\* The integer product of two row lists.
RowsMul(a, b) ==
    LET bt == Transpose(b)
    IN  [i \in DOMAIN a |-> [j \in DOMAIN bt |-> Dot(a[i], bt[j])]]

MatMul(A, B) == MCanon(RowsMul(A.n, B.n), A.d * B.d)

\* rows without row i and column j.
Minor(rows, i, j) ==
    LET k == Len(rows)
    IN  [a \in 1..(k - 1) |-> [b \in 1..(k - 1) |->
            rows[IF a < i THEN a ELSE a + 1][IF b < j THEN b ELSE b + 1]]]

RECURSIVE Det(_)
Det(rows) ==
    IF Len(rows) = 1 THEN rows[1][1]
    ELSE LET RECURSIVE Expand(_)
             Expand(j) ==
                 IF j = 0 THEN 0
                 ELSE (IF j % 2 = 1 THEN 1 ELSE -1) * rows[1][j] * Det(Minor(rows, 1, j))
                      + Expand(j - 1)
         IN  Expand(Len(rows))

\* The transposed matrix of cofactors.
Adjugate(rows) ==
    [i \in DOMAIN rows |-> [j \in DOMAIN rows |->
        (IF (i + j) % 2 = 0 THEN 1 ELSE -1) * Det(Minor(rows, j, i))]]

Singular(A) == Det(A.n) = 0

\* numpy.linalg.inv of a non-singular matrix: (n/d)^-1 = d * adj(n) / det(n).
Inverse(A) ==
    LET adj == Adjugate(A.n)
    IN  MCanon([i \in DOMAIN adj |-> [j \in DOMAIN adj |-> A.d * adj[i][j]]], Det(A.n))

\* The transpose taken for the inverse (right for orthonormal R only).
Inverse_transpose(A) == MCanon(Transpose(A.n), A.d)

\* The top-left 3x3 block and the top-right 3x1 column of a 4x4 matrix.
Block(P) == MCanon([i \in 1..3 |-> [j \in 1..3 |-> P.n[i][j]]], P.d)

Column(P) == Canon([i \in 1..3 |-> P.n[i][4]], P.d)

(***************************************************************************)
(* Perspective transformations.                                            *)
(***************************************************************************)
\* np.zeros in place of np.eye: the bottom row is left at zero.
P_from_R_and_t_zeros(Rm, tv) ==
    MCanon([i \in 1..4 |-> [j \in 1..4 |->
               IF i = 4 THEN 0
               ELSE IF j = 4 THEN tv.n[i] * Rm.d ELSE Rm.n[i][j] * tv.d]],
           Rm.d * tv.d)

\* np.eye(4) with R written to P[0:3, 0:3] and t to P[0:3, 3:4].
P_from_R_and_t(Rm, tv) ==
    MCanon([i \in 1..4 |-> [j \in 1..4 |->
               IF i = 4 THEN (IF j = 4 THEN Rm.d * tv.d ELSE 0)
               ELSE IF j = 4 THEN tv.n[i] * Rm.d ELSE Rm.n[i][j] * tv.d]],
           Rm.d * tv.d)

\* LA.inv raises LinAlgError on a singular top-left block.
P_inv_raises(P) == Singular(Block(P))

\* -R.dot(t) for a matrix R and a column t.
NegMatVec(Rm, tv) == Canon([i \in 1..3 |-> -Dot(Rm.n[i], tv.n)], Rm.d * tv.d)

P_inv_transpose(P) ==
    LET Rm == Inverse_transpose(Block(P))
    IN  P_from_R_and_t(Rm, NegMatVec(Rm, Column(P)))

P_inv(P) ==
    LET Rm == Inverse(Block(P))
    IN  P_from_R_and_t(Rm, NegMatVec(Rm, Column(P)))

\* What cv2.solve(A, B, dst, DECOMP_SVD) may leave in dst: the solution of
\* A X = B when A is non-singular; for a singular A the least-squares answer
\* is not computed here, and any of a few matrices stands for it.
Solve(A, B) ==
    IF Singular(A) THEN {B, Mat([i \in 1..4 |-> [j \in 1..4 |-> 0]]),
                         Mat([i \in 1..4 |-> [j \in 1..4 |-> 1]])}
    ELSE {MatMul(Inverse(A), B)}

TransposeOf(A) == MCanon(Transpose(A.n), A.d)

\* The last two assignments of delta_P: the bottom row of X is set to (0, 0, 0, 1).
WithBottomRow(X) ==
    MCanon([i \in 1..4 |-> [j \in 1..4 |->
               IF i = 4 THEN (IF j = 4 THEN X.d ELSE 0) ELSE X.n[i][j]]],
           X.d)

\* The transposes left out: P1 X = P2 is solved, that is P = P1^-1 P2.
delta_P_notransposed(Pb, Pa) == {WithBottomRow(X) : X \in Solve(Pa, Pb)}

\* The matrices delta_P(P2, P1) may return: Pa is the source's P1, Pb its P2.
delta_P(Pb, Pa) ==
    {WithBottomRow(TransposeOf(X)) : X \in Solve(TransposeOf(Pa), TransposeOf(Pb))}

\* a/b for b # 0, to the nearest integer, halves to the even one (np.rint).
RoundHalfEven(a, b) ==
    LET x  == Sgn(b) * a
        y  == Abs(b)
        fl == x \div y
        rm == x - fl * y
    IN  IF 2 * rm < y THEN fl
        ELSE IF 2 * rm > y THEN fl + 1
        ELSE IF fl % 2 = 0 THEN fl ELSE fl + 1

\* A point with a 1 appended, over the denominator of the list.
Homogeneous(pts, i) == << pts.n[i][1], pts.n[i][2], pts.n[i][3], pts.d >>

\* The numerators of row i of points_nrm . P[0:3, :].T . K.T
Projected(pts, P, Km, i) ==
    LET cam == [j \in 1..3 |-> Dot(P.n[j], Homogeneous(pts, i))]
    IN  [k \in 1..3 |-> Dot(Km.n[k], cam)]

\* The status bit taken with >= 0: a point in the camera plane counts as in front.
project_points_nonstrict(pts, P, Km, junk) ==
    [pixels |-> [i \in DOMAIN pts.n |->
                    LET pr == Projected(pts, P, Km, i)
                    IN  IF pr[3] = 0 THEN << junk, junk >>
                        ELSE << RoundHalfEven(pr[1], pr[3]), RoundHalfEven(pr[2], pr[3]) >>],
     flags  |-> [i \in DOMAIN pts.n |-> Projected(pts, P, Km, i)[3] >= 0]]

\* The pixel coordinates and the status vector.  A division by a zero third
\* coordinate leaves inf or nan, whose cast to int is not defined: junk.
project_points(pts, P, Km, junk) ==
    [pixels |-> [i \in DOMAIN pts.n |->
                    LET pr == Projected(pts, P, Km, i)
                    IN  IF pr[3] = 0 THEN << junk, junk >>
                        ELSE << RoundHalfEven(pr[1], pr[3]), RoundHalfEven(pr[2], pr[3]) >>],
     flags  |-> [i \in DOMAIN pts.n |-> Projected(pts, P, Km, i)[3] > 0]]

\* points_nrm . P[2:3, :].T, reshaped to one row.
projection_depth(pts, P) ==
    Canon([i \in DOMAIN pts.n |-> Dot(P.n[3], Homogeneous(pts, i))], P.d * pts.d)

(***************************************************************************)
(* The caller: argument arrays and calls.                                  *)
(***************************************************************************)
QuatIn(lo, hi) ==
    {Vec(<< x, y, z, w >>) : x \in lo..hi, y \in lo..hi, z \in lo..hi, w \in lo..hi}

RvecIn(lo, hi) == {Vec(<< x, y, z >>) : x \in lo..hi, y \in lo..hi, z \in lo..hi}

NoQuats == q1 = None /\ q2 = None

NoRvecs == r1 = None /\ r2 = None

NoPoses == P1 = None /\ P2 = None /\ R = None /\ t = None

NoPoints == points = None /\ K = None

NoCall == fn = "none" /\ status = "ok" /\ ret = None /\ depth = 0

InitQuat ==
    /\ q1 \in QuatIn(-MaxQ, MaxQ)
    /\ q2 \in QuatIn(0, MaxQ2)
    /\ NoRvecs /\ NoPoses /\ NoPoints /\ NoCall

InitRvec ==
    /\ r1 \in RvecIn(-MaxR, MaxR)
    /\ r2 \in RvecIn(0, MaxR2) \cup {r1}
    /\ NoQuats /\ NoPoses /\ NoPoints /\ NoCall

\* A call that returns v and leaves every argument array alone.
Returns(f, v) ==
    /\ fn' = f
    /\ status' = "ok"
    /\ ret' = v
    /\ UNCHANGED <<q1, q2, r1, r2, P1, P2, R, t, points, K, depth>>

Call_mult_quat == q1 # None /\ Returns("mult_quat", mult_quat(q2, q1))

Call_inv_quat == q1 # None /\ Returns("inv_quat", inv_quat(q1))

Call_delta_quat == q1 # None /\ Returns("delta_quat", delta_quat(q2, q1))

Call_rvec_from_quat ==
    /\ q1 # None
    /\ fn' = "rvec_from_quat"
    /\ q1' = rvec_from_quat_qwt(q1)
    /\ status' = IF rvec_from_quat_raises(q1) THEN "ValueError" ELSE "ok"
    /\ ret' = IF rvec_from_quat_raises(q1) THEN None ELSE rvec_from_quat(q1)
    /\ UNCHANGED <<q2, r1, r2, P1, P2, R, t, points, K, depth>>

Call_quat_from_rvec == r1 # None /\ Returns("quat_from_rvec", quat_from_rvec(r1))

Call_axis_and_angle_from_rvec ==
    r1 # None /\ Returns("axis_and_angle_from_rvec", axis_and_angle_from_rvec(r1))

Call_delta_rvec ==
    /\ r1 # None
    /\ fn' = "delta_rvec"
    /\ status' = IF delta_rvec_raises(r2, r1) THEN "ValueError" ELSE "ok"
    /\ ret' = IF delta_rvec_raises(r2, r1) THEN None ELSE delta_rvec(r2, r1)
    /\ UNCHANGED <<q1, q2, r1, r2, P1, P2, R, t, points, K, depth>>

NextQuat == Call_mult_quat \/ Call_inv_quat \/ Call_delta_quat \/ Call_rvec_from_quat

SpecQuat == InitQuat /\ [][NextQuat]_vars

NextRvec == Call_quat_from_rvec \/ Call_axis_and_angle_from_rvec \/ Call_delta_rvec

SpecRvec == InitRvec /\ [][NextRvec]_vars

\* Row k of R: a multiple of the unit vector e_k, the next unit vector, or
\* (for the first row) the shear row (1, 1, 0).
RowIn(k) ==
    {[j \in 1..3 |-> IF j = k THEN v ELSE 0] : v \in -1..MaxM}
        \cup {[j \in 1..3 |-> IF j = (k % 3) + 1 THEN 1 ELSE 0]}
        \cup (IF k = 1 THEN {<< 1, 1, 0 >>} ELSE {})

RIn == {Mat(<< a, b, c >>) : a \in RowIn(1), b \in RowIn(2), c \in RowIn(3)}

TIn == {Vec(<< 0, 0, 0 >>)} \cup {Vec(<< a, b, -1 >>) : a \in 0..MaxT, b \in 0..MaxT}

\* Bottom rows of the caller's 4x4 arrays: the homogeneous one and another.
BottomIn == {<< 0, 0, 0, 1 >>, << 1, 0, 0, 2 >>}

\* The 4x4 array with rows [R | t] and the bottom row b.
Assemble(Rm, tv, b) ==
    Mat([i \in 1..4 |-> IF i = 4 THEN b
                         ELSE << Rm.n[i][1], Rm.n[i][2], Rm.n[i][3], tv.n[i] >>])

\* The identity, a quarter turn with a shift, a scaling with a shear and a
\* shift, and a 4x4 array that is no pose.
Pose2In ==
    {Assemble(Mat(<< << 1, 0, 0 >>, << 0, 1, 0 >>, << 0, 0, 1 >> >>),
              Vec(<< 0, 0, 0 >>), << 0, 0, 0, 1 >>),
     Assemble(Mat(<< << 0, -1, 0 >>, << 1, 0, 0 >>, << 0, 0, 1 >> >>),
              Vec(<< 1, -2, 3 >>), << 0, 0, 0, 1 >>),
     Assemble(Mat(<< << 2, 0, 0 >>, << 0, 1, 1 >>, << 0, 0, 1 >> >>),
              Vec(<< 0, 1, -1 >>), << 0, 0, 0, 1 >>),
     Assemble(Mat(<< << 1, 0, 0 >>, << 0, 0, 1 >>, << 0, 1, 0 >> >>),
              Vec(<< 1, 0, 0 >>), << 1, 0, 0, 2 >>)}

InitPose ==
    /\ R \in RIn
    /\ t \in TIn
    /\ P1 \in {Assemble(R, t, b) : b \in BottomIn}
    /\ P2 \in Pose2In \cup {P1}
    /\ NoQuats /\ NoRvecs /\ NoPoints /\ NoCall

\* Fewer arrays, for chains of calls: R and t are taken from the arrays of Pose2In.
InitChain ==
    /\ R \in {Block(P) : P \in Pose2In} \cup {Mat(<< << 1, 0, 0 >>, << 1, 0, 0 >>, << 0, 0, 1 >> >>)}
    /\ t \in {Column(P) : P \in Pose2In}
    /\ P1 \in {Assemble(R, t, b) : b \in BottomIn}
    /\ P2 \in Pose2In
    /\ NoQuats /\ NoRvecs /\ NoPoints /\ NoCall

PointIn == {<< x, 1, z >> : x \in 0..1, z \in -MaxZ..MaxZ}

PointsIn ==
    UNION {{Mat(pts) : pts \in [1..k -> PointIn]} : k \in 1..MaxPts}

\* Camera matrices for projection: the identity, a shift and a half turn of
\* the camera, a scaled pose and a matrix that is no pose.
ProjPoseIn ==
    {Mat(<< << 1, 0, 0, 0 >>, << 0, 1, 0, 0 >>, << 0, 0, 1, 0 >>, << 0, 0, 0, 1 >> >>),
     Mat(<< << 1, 0, 0, 0 >>, << 0, 1, 0, 0 >>, << 0, 0, 1, -1 >>, << 0, 0, 0, 1 >> >>),
     Mat(<< << 1, 0, 0, 2 >>, << 0, -1, 0, 0 >>, << 0, 0, -1, 0 >>, << 0, 0, 0, 1 >> >>),
     Mat(<< << 0, 0, 1, 0 >>, << 0, 1, 0, 0 >>, << -1, 0, 0, 1 >>, << 0, 0, 0, 1 >> >>),
     Mat(<< << 2, 0, 0, 0 >>, << 0, 2, 0, 0 >>, << 0, 0, 3, 1 >>, << 0, 0, 0, 1 >> >>),
     Mat(<< << 1, 0, 0, 0 >>, << 0, 1, 0, 0 >>, << 1, 1, 1, 1 >>, << 1, 0, 0, 0 >> >>)}

\* Intrinsics with third row (0, 0, 1), and 3x3 matrices with another third row.
KIn ==
    {Mat(<< << f, 0, c >>, << 0, f, c >>, << 0, 0, 1 >> >>) : f \in 1..2, c \in 0..1}
        \cup {Mat(<< << 1, 0, 0 >>, << 0, 1, 0 >>, row >>) :
                 row \in {<< 0, 0, -1 >>, << 1, 0, 1 >>, << 0, 0, 0 >>, << 0, 0, 2 >>}}

\* What the cast of inf or nan to int may give.
CastJunk == {0, -1}

InitProj ==
    /\ points \in PointsIn
    /\ P1 \in ProjPoseIn
    /\ K \in KIn
    /\ P2 = None /\ R = None /\ t = None
    /\ NoQuats /\ NoRvecs /\ NoCall

Call_P_from_R_and_t == R # None /\ Returns("P_from_R_and_t", P_from_R_and_t(R, t))

\* A call that raises exc and leaves every argument array alone.
Raises(f, exc) ==
    /\ fn' = f
    /\ status' = exc
    /\ ret' = None
    /\ UNCHANGED <<q1, q2, r1, r2, P1, P2, R, t, points, K, depth>>

Call_P_inv ==
    /\ R # None
    /\ IF P_inv_raises(P1) THEN Raises("P_inv", "LinAlgError")
       ELSE Returns("P_inv", P_inv(P1))

Call_delta_P == R # None /\ \E P \in delta_P(P2, P1) : Returns("delta_P", P)

\* The last call returned a 4x4 matrix.
ReturnedPose == fn \in {"P_from_R_and_t", "P_inv", "delta_P"} /\ status = "ok"

\* A call on the result of the last call.
Chained(f, v) ==
    /\ fn' = f
    /\ status' = "ok"
    /\ ret' = v
    /\ depth' = depth + 1
    /\ UNCHANGED <<q1, q2, r1, r2, P1, P2, R, t, points, K>>

Chain_P_from_R_and_t ==
    /\ ReturnedPose /\ depth < MaxChain
    /\ Chained("P_from_R_and_t", P_from_R_and_t(Block(ret), Column(ret)))

Chain_P_inv ==
    /\ ReturnedPose /\ depth < MaxChain
    /\ fn' = "P_inv"
    /\ status' = IF P_inv_raises(ret) THEN "LinAlgError" ELSE "ok"
    /\ ret' = IF P_inv_raises(ret) THEN None ELSE P_inv(ret)
    /\ depth' = depth + 1
    /\ UNCHANGED <<q1, q2, r1, r2, P1, P2, R, t, points, K>>

Chain_delta_P ==
    /\ ReturnedPose /\ depth < MaxChain
    /\ \E P \in delta_P(ret, P1) \cup delta_P(P2, ret) : Chained("delta_P", P)

Call_project_points ==
    /\ points # None
    /\ \E junk \in CastJunk : Returns("project_points", project_points(points, P1, K, junk))

Call_projection_depth ==
    points # None /\ Returns("projection_depth", projection_depth(points, P1))

NextPose == Call_P_from_R_and_t \/ Call_P_inv \/ Call_delta_P

SpecPose == InitPose /\ [][NextPose]_vars

NextChain == NextPose \/ Chain_P_from_R_and_t \/ Chain_P_inv \/ Chain_delta_P

SpecChain == InitChain /\ [][NextChain]_vars

NextProj == Call_project_points \/ Call_projection_depth

SpecProj == InitProj /\ [][NextProj]_vars

Init == InitQuat \/ InitRvec \/ InitPose \/ InitChain \/ InitProj

Next == NextQuat \/ NextRvec \/ NextChain \/ NextProj

Spec == Init /\ [][Next]_vars

(***************************************************************************)
(* The claims.                                                             *)
(***************************************************************************)
IsPose(P) == P.n[4] = << 0, 0, 0, P.d >>

\* C1: every matrix returned by P_from_R_and_t, P_inv and delta_P, for any
\* arguments, any solver result and after any chain of these calls on each
\* other's results, has the bottom row exactly (0, 0, 0, 1).
C1_BottomRow == ReturnedPose => IsPose(ret)

\* delta_P was called on an earlier result and on an array that is no pose.
C1_Witness ==
    /\ fn = "delta_P" /\ status = "ok" /\ depth >= 1
    /\ ~IsPose(P2) /\ ~IsPose(P1)
    /\ IsPose(ret)

Flags(pts, P) == [i \in DOMAIN pts.n |-> projection_depth(pts, P).n[i] > 0]

BasisProduct ==
    << << << -1, 4 >>, <<  1, 3 >>, << -1, 2 >>, << 1, 1 >> >>,
       << << -1, 3 >>, << -1, 4 >>, <<  1, 1 >>, << 1, 2 >> >>,
       << <<  1, 2 >>, << -1, 1 >>, << -1, 4 >>, << 1, 3 >> >>,
       << <<  1, 1 >>, <<  1, 2 >>, <<  1, 3 >>, << 1, 4 >> >> >>

\* The Hamilton product p * q, p the left factor, by bilinearity.
Hamilton(p, q) ==
    LET RECURSIVE Sum(_, _)
        Sum(c, k) ==
            IF k = 0 THEN 0
            ELSE LET a  == ((k - 1) \div 4) + 1
                     b  == ((k - 1) % 4) + 1
                     bp == BasisProduct[a][b]
                 IN  (IF bp[2] = c THEN bp[1] * p.n[a] * q.n[b] ELSE 0) + Sum(c, k - 1)
    IN  Canon([c \in 1..4 |-> Sum(c, 16)], p.d * q.d)

\* C3: mult_quat(q2, q1) is the Hamilton product q2 * q1, q2 the left factor.
C3_MultQuatIsHamilton == fn = "mult_quat" => ret = Hamilton(q2, q1)

NonZero(v) == IsFinite(v) /\ \E i \in DOMAIN v.n : v.n[i] # 0

\* C4: for every q2 and every non-zero q1, unit or not, accumulating
\* delta_quat(q2, q1) onto q1 gives q2: mult_quat(delta_quat(q2, q1), q1) = q2.
C4_DeltaAccumulates ==
    (fn = "delta_quat" /\ NonZero(q1)) => mult_quat(ret, q1) = q2

\* A delta taken from a q1 that is not of unit length.
C4_Witness ==
    /\ fn = "delta_quat"
    /\ q1 = Vec(<< 1, -2, 0, 2 >>) /\ q2 = Vec(<< 0, 1, 1, 0 >>)
    /\ mult_quat(ret, q1) = q2

\* C5: for every pose P (bottom row (0, 0, 0, 1), invertible top-left block),
\* P * P_inv(P) = P_inv(P) * P = the identity and P_inv(P_inv(P)) = P.
C5_PInvIsInverse ==
    (fn = "P_inv" /\ IsPose(P1) /\ ~Singular(Block(P1)))
        => /\ status = "ok"
           /\ MatMul(P1, ret) = Eye(4)
           /\ MatMul(ret, P1) = Eye(4)
           /\ ~P_inv_raises(ret)
           /\ P_inv(ret) = P1

\* The inverse of a pose that is sheared, scaled and shifted.
C5_Witness ==
    /\ fn = "P_inv" /\ status = "ok" /\ IsPose(P1)
    /\ R.n[1] = << 1, 1, 0 >> /\ R.n[2][2] = 2 /\ t.n[1] = 1
    /\ MatMul(P1, ret) = Eye(4)

\* C6: for poses P1, P2 with P1 invertible and an exact solver, P =
\* delta_P(P2, P1) satisfies P2 = P * P1; so delta_P(P, P) is the identity and
\* delta_P(P2, identity) is P2.
C6_DeltaPSolves ==
    (fn = "delta_P" /\ IsPose(P1) /\ IsPose(P2) /\ ~Singular(P1))
        => /\ MatMul(ret, P1) = P2
           /\ (P2 = P1 => ret = Eye(4))
           /\ (P1 = Eye(4) => ret = P2)

\* A delta of two poses that do not commute.
C6_Witness ==
    /\ fn = "delta_P" /\ IsPose(P1) /\ IsPose(P2) /\ ~Singular(P1)
    /\ P1 # Eye(4) /\ P2 # P1
    /\ MatMul(ret, P1) = P2
    /\ MatMul(P1, ret) # P2

\* C7: no call changes a caller-owned argument array.
C7_ArgumentsUnchanged ==
    [][<<q1, q2, r1, r2, P1, P2, R, t, points, K>>'
          = <<q1, q2, r1, r2, P1, P2, R, t, points, K>>]_vars

\* C8: for every non-zero rvec, axis_and_angle_from_rvec returns an angle with
\* abs(angle) <= pi and an axis whose dominant component is positive, and the
\* angle differs from the signed norm of rvec by a multiple of 2 pi.
C8_AngleWrapped ==
    (fn = "axis_and_angle_from_rvec" /\ NonZero(r1))
        => /\ Abs(ret.angle) <= PiG
           /\ ret.axis.n[ArgMaxAbs(r1.n)] > 0
           /\ (ret.angle - Sgn(r1.n[ArgMaxAbs(r1.n)]) * Norm(r1)) % (2 * PiG) = 0

\* C9: for every r, the zero vector included, delta_rvec(r, r) is (0, 0, 0);
\* quat_from_rvec(r) is non-zero, is the identity quaternion for r = 0, and
\* delta_quat(q, q) of it is the identity quaternion.
C9_DeltaRvecSelfIsZero ==
    /\ (fn = "delta_rvec" /\ r2 = r1) => (status = "ok" /\ ret = Vec(<< 0, 0, 0 >>))
    /\ fn = "quat_from_rvec"
          => /\ NonZero(ret)
             /\ (r1 = Vec(<< 0, 0, 0 >>) => ret = Vec(<< 0, 0, 0, 1 >>))
             /\ delta_quat(ret, ret) = Vec(<< 0, 0, 0, 1 >>)

\* The delta of a rotation by more than pi with itself.
C9_Witness ==
    /\ fn = "delta_rvec" /\ r2 = r1 /\ r1 = Vec(<< 1, -2, 3 >>)
    /\ ret = Vec(<< 0, 0, 0 >>)

\* C10: for every non-zero q, the w that rvec_from_quat hands to acos after
\* its guard lies in [-1, 1], and the call ends without a domain error.
C10_NoDomainError ==
    (fn = "rvec_from_quat" /\ NonZero(q1))
        => /\ -q1.d <= q1.n[4] /\ q1.n[4] <= q1.d
           /\ status = "ok"

====
